---- MODULE Spec2Model ----
(***************************************************************************)
(* A model of the hulo-npm release-packaging pipeline:                     *)
(*   - the checksum manifest parser (parseChecksums),                      *)
(*   - the Fetcher   (prepare script, src/unnamed/part_000),               *)
(*   - the Installer (src/scripts/postprepare.ts),                         *)
(*   - the platform installer (src/unnamed/part_001).                      *)
(* Strings are sequences of one-character strings, so that splitting,      *)
(* trimming, joining, regular-expression matching and case folding are     *)
(* computed as the code computes them.                                     *)
(***************************************************************************)
EXTENDS Naturals, Sequences, FiniteSets, TLC

VARIABLES
    \* ---- the manifest parser, on its own
    content,        \* the manifest text handed to parseChecksums
    entries,        \* the ChecksumEntry list it returned
    ppc,            \* "input" before the call, "parsed" after it, "off" when unused
    \* ---- the release and the staging directory temp/
    remoteText,     \* the text of {base}/checksums.txt of the release
    tempExists,     \* whether temp/ exists
    tempFiles,      \* the files of temp/: filename -> [state, text, stale]
    packages,       \* temp/packages/: directory name -> its content
    \* ---- the Fetcher process
    fargv,          \* process.argv[2] of the Fetcher (<<>>: absent)
    fpc,            \* where main() is
    fcleared,       \* how clearing temp/ went: "no", "threw", "leftover", "yes"
    fmanifest,      \* how fetching the manifest went: "no", "failed", "ok"
    checksumsText,  \* the manifest text in memory
    checksums,      \* the parsed manifest
    dl,             \* one download state per manifest entry
    fexit,          \* exit code: "none" while running, then "0" or "1"
    summary,        \* what the download summary reported
    \* ---- the Installer process
    iargv,          \* process.argv[2] of the Installer (<<>>: absent)
    ipc,            \* where main() is
    ichecksums,     \* the manifest re-read from temp/checksums.txt
    idx,            \* index of the manifest entry the loop is at
    outcomes,       \* per entry reached so far, what the loop did with it
    extracted,      \* what the last extraction unpacked (the listing of std/)
    iexit,          \* exit code: "none" while running, then "0" or "1"
    iruns,          \* which run of the Installer on this temp/ this is
    \* ---- the platform installer process
    hostOs,         \* os.platform() of the host
    hostArch,       \* os.arch() of the host
    rpc,            \* where main() is
    packageName,    \* the package the install command names
    rexit           \* exit code: "none" while running, then "0" or "1"

parseVars == <<content, entries, ppc>>
stageVars == <<remoteText, tempExists, tempFiles, packages>>
fetchVars == <<fargv, fpc, fcleared, fmanifest, checksumsText, checksums, dl, fexit, summary>>
installVars == <<iargv, ipc, ichecksums, idx, outcomes, extracted, iexit, iruns>>
resolveVars == <<hostOs, hostArch, rpc, packageName, rexit>>
vars == <<parseVars, stageVars, fetchVars, installVars, resolveVars>>

\* the function with no argument: a directory without files
NoFiles == [x \in {} |-> x]
NoSummary == [reported |-> FALSE, succeeded |-> 0, failed |-> 0]
\* nothing extracted yet
NoExtraction == [index |-> 0, binary |-> FALSE, hasStd |-> FALSE, std |-> <<>>]

\* the values of the variables of a component that a specification leaves out
StageIdle ==
    remoteText = <<>> /\ tempExists = FALSE /\ tempFiles = NoFiles /\ packages = NoFiles
FetchIdle ==
    /\ fargv = <<>> /\ fpc = "off" /\ fcleared = "no" /\ fmanifest = "no"
    /\ checksumsText = <<>> /\ checksums = <<>> /\ dl = <<>>
    /\ fexit = "none" /\ summary = NoSummary
InstallIdle ==
    /\ iargv = <<>> /\ ipc = "off" /\ ichecksums = <<>> /\ idx = 0
    /\ outcomes = <<>> /\ extracted = NoExtraction /\ iexit = "none" /\ iruns = 0
ResolveIdle ==
    /\ hostOs = <<>> /\ hostArch = <<>> /\ rpc = "off"
    /\ packageName = <<>> /\ rexit = "none"
ParseIdle == content = <<>> /\ entries = <<>> /\ ppc = "off"

----------------------------------------------------------------------------
(* Bounds of the model.                                                    *)

\* longest manifest text the parser specification enumerates
MaxLen == 6

----------------------------------------------------------------------------
(* Strings.                                                                *)

SetMin(S) == CHOOSE x \in S : \A y \in S : x <= y
SetMax(S) == CHOOSE x \in S : \A y \in S : y <= x

\* the characters the parser specification builds manifest texts from
ParseAlphabet == {"a", "b", " ", "\t", "\n"}

\* ECMAScript white space and line terminators: what trim() strips and \s matches
isSpace(c) == c \in {" ", "\t", "\r", "\n"}

\* String.prototype.split(sep) for a one-character separator
RECURSIVE split(_, _)
split(s, sep) ==
    IF \E i \in 1..Len(s) : s[i] = sep
    THEN LET i == SetMin({k \in 1..Len(s) : s[k] = sep})
         IN  <<SubSeq(s, 1, i - 1)>> \o split(SubSeq(s, i + 1, Len(s)), sep)
    ELSE <<s>>

\* a plausible slip: the line is used untrimmed
trimOmitted(s) == s

\* String.prototype.trim()
trim(s) ==
    LET keep == {i \in 1..Len(s) : ~isSpace(s[i])}
    IN  IF keep = {} THEN <<>> ELSE SubSeq(s, SetMin(keep), SetMax(keep))

\* String.prototype.split(/\s+/): a leading or trailing run of white space
\* leaves an empty first or last part
RECURSIVE splitWhitespace(_)
splitWhitespace(s) ==
    IF \E i \in 1..Len(s) : isSpace(s[i])
    THEN LET i == SetMin({k \in 1..Len(s) : isSpace(s[k])})
             after == {k \in (i + 1)..Len(s) : ~isSpace(s[k])}
             j == IF after = {} THEN Len(s) + 1 ELSE SetMin(after)
         IN  <<SubSeq(s, 1, i - 1)>> \o splitWhitespace(SubSeq(s, j, Len(s)))
    ELSE <<s>>

\* Array.prototype.join(sep)
RECURSIVE join(_, _)
join(parts, sep) ==
    IF parts = <<>> THEN <<>>
    ELSE IF Len(parts) = 1 THEN parts[1]
    ELSE parts[1] \o sep \o join(Tail(parts), sep)

----------------------------------------------------------------------------
(* String literals of the sources, as character sequences.                 *)

ChecksumsTxt ==
    <<"c", "h", "e", "c", "k", "s", "u", "m", "s", ".", "t", "x", "t">>
LinuxTarGz ==
    <<"h", "u", "l", "o", "_", "L", "i", "n", "u", "x", "_", "x", "8", "6", "_", "6", "4", ".", "t", "a", "r", ".", "g", "z">>
WindowsZip ==
    <<"h", "u", "l", "o", "_", "W", "i", "n", "d", "o", "w", "s", "_", "a", "r", "m", "6", "4", ".", "z", "i", "p">>
SolarisTarGz ==
    <<"h", "u", "l", "o", "_", "S", "o", "l", "a", "r", "i", "s", "_", "a", "r", "m", "6", "4", ".", "t", "a", "r", ".", "g", "z">>
LinuxTarGzSig ==
    <<"h", "u", "l", "o", "_", "L", "i", "n", "u", "x", "_", "x", "8", "6", "_", "6", "4", ".", "t", "a", "r", ".", "g", "z", ".", "s", "i", "g">>
HuloDash ==
    <<"h", "u", "l", "o", "-">>
HuloUnderscore ==
    <<"h", "u", "l", "o", "_">>
DotTarGz ==
    <<".", "t", "a", "r", ".", "g", "z">>
DotZip ==
    <<".", "z", "i", "p">>
Windows ==
    <<"w", "i", "n", "d", "o", "w", "s">>
DefaultFetchVersion ==
    <<"v", "0", ".", "1", ".", "0">>
DefaultInstallVersion ==
    <<"0", ".", "1", ".", "0">>
TaggedVersion ==
    <<"v", "1", ".", "2", ".", "3">>
BareVersion ==
    <<"1", ".", "2", ".", "3">>
HuloScope ==
    <<"@", "h", "u", "l", "o", "/">>
DarwinArm64 ==
    <<"d", "a", "r", "w", "i", "n", "-", "a", "r", "m", "6", "4">>
DarwinX8664 ==
    <<"d", "a", "r", "w", "i", "n", "-", "x", "8", "6", "-", "6", "4">>
LinuxArm64 ==
    <<"l", "i", "n", "u", "x", "-", "a", "r", "m", "6", "4">>
LinuxI386 ==
    <<"l", "i", "n", "u", "x", "-", "i", "3", "8", "6">>
LinuxX8664 ==
    <<"l", "i", "n", "u", "x", "-", "x", "8", "6", "-", "6", "4">>
WindowsArm64 ==
    <<"w", "i", "n", "d", "o", "w", "s", "-", "a", "r", "m", "6", "4">>
WindowsI386 ==
    <<"w", "i", "n", "d", "o", "w", "s", "-", "i", "3", "8", "6">>
WindowsX8664 ==
    <<"w", "i", "n", "d", "o", "w", "s", "-", "x", "8", "6", "-", "6", "4">>
UpperLetters ==
    <<"A", "B", "C", "D", "E", "F", "G", "H", "I", "J", "K", "L", "M", "N", "O", "P", "Q", "R", "S", "T", "U", "V", "W", "X", "Y", "Z">>
LowerLetters ==
    <<"a", "b", "c", "d", "e", "f", "g", "h", "i", "j", "k", "l", "m", "n", "o", "p", "q", "r", "s", "t", "u", "v", "w", "x", "y", "z">>
Darwin ==
    <<"d", "a", "r", "w", "i", "n">>
Linux ==
    <<"l", "i", "n", "u", "x">>
Win32 ==
    <<"w", "i", "n", "3", "2">>
FreeBsd ==
    <<"f", "r", "e", "e", "b", "s", "d">>
X8664 ==
    <<"x", "8", "6", "-", "6", "4">>
Arm64 ==
    <<"a", "r", "m", "6", "4">>
I386 ==
    <<"i", "3", "8", "6">>
X64 ==
    <<"x", "6", "4">>
Ia32 ==
    <<"i", "a", "3", "2">>
Arm ==
    <<"a", "r", "m">>
OpenBsd ==
    <<"o", "p", "e", "n", "b", "s", "d">>
SunOs ==
    <<"s", "u", "n", "o", "s">>
Aix ==
    <<"a", "i", "x">>
Mips ==
    <<"m", "i", "p", "s">>
Ppc ==
    <<"p", "p", "c">>
Ppc64 ==
    <<"p", "p", "c", "6", "4">>
X8664Underscore ==
    <<"x", "8", "6", "_", "6", "4">>
SampleHash ==
    <<"9", "f", "2", "c">>

----------------------------------------------------------------------------
(* ChecksumManifest parser.                                                *)

\* the body of the forEach callback: the entries one line contributes
parseLine(line) ==
    LET trimmed == trim(line)
    IN  IF trimmed # <<>>
        THEN LET parts == splitWhitespace(trimmed)
             IN  IF Len(parts) >= 2
                 THEN <<[hash |-> parts[1], filename |-> join(Tail(parts), <<" ">>)]>>
                 ELSE <<>>
        ELSE <<>>

RECURSIVE parseLines(_)
parseLines(lines) ==
    IF lines = <<>> THEN <<>>
    ELSE parseLine(Head(lines)) \o parseLines(Tail(lines))

parseChecksums(text) == parseLines(split(text, "\n"))

----------------------------------------------------------------------------
(* The parser specification: every manifest text over ParseAlphabet of at  *)
(* most MaxLen characters is parsed once.                                  *)

ParseInputs == UNION {[1..n -> ParseAlphabet] : n \in 0..MaxLen}

InitParse ==
    /\ content \in ParseInputs /\ entries = <<>> /\ ppc = "input"
    /\ StageIdle /\ FetchIdle /\ InstallIdle /\ ResolveIdle

Parse ==
    /\ ppc = "input"
    /\ entries' = parseChecksums(content)
    /\ ppc' = "parsed"
    /\ UNCHANGED <<content, stageVars, fetchVars, installVars, resolveVars>>

NextParse == Parse

SpecParse == InitParse /\ [][NextParse]_vars

----------------------------------------------------------------------------
(* What the manifest format says of a text, stated on character positions  *)
(* (independently of split, trim and join).                                *)

NewlinesOf(text) == {i \in 1..Len(text) : text[i] = "\n"}
NumLines(text) == Cardinality(NewlinesOf(text)) + 1
\* position of the k-th newline; 0 for k = 0, Len + 1 past the last one
NewlineAt(text, k) ==
    IF k = 0 THEN 0
    ELSE IF k > Cardinality(NewlinesOf(text)) THEN Len(text) + 1
    ELSE CHOOSE p \in NewlinesOf(text) :
             Cardinality({q \in NewlinesOf(text) : q < p}) = k - 1
LineAt(text, k) == SubSeq(text, NewlineAt(text, k - 1) + 1, NewlineAt(text, k) - 1)

TokenStarts(line) ==
    {i \in 1..Len(line) : ~isSpace(line[i]) /\ (i = 1 \/ isSpace(line[i - 1]))}
TokenEnd(line, i) ==
    SetMax({j \in i..Len(line) : \A k \in i..j : ~isSpace(line[k])})
NumTokens(line) == Cardinality(TokenStarts(line))
\* the k-th token of a line
TokenAt(line, k) ==
    LET i == CHOOSE p \in TokenStarts(line) :
                 Cardinality({q \in TokenStarts(line) : q < p}) = k - 1
    IN  SubSeq(line, i, TokenEnd(line, i))
WellFormed(line) == NumTokens(line) >= 2
WellFormedLines(text) == {k \in 1..NumLines(text) : WellFormed(LineAt(text, k))}
\* index of the k-th well-formed line
WellFormedAt(text, k) ==
    CHOOSE n \in WellFormedLines(text) :
        Cardinality({m \in WellFormedLines(text) : m < n}) = k - 1
\* the filename part of a well-formed line: from its second token to its last
\* non-blank character
FilenamePart(line) ==
    LET second == CHOOSE p \in TokenStarts(line) :
                      Cardinality({q \in TokenStarts(line) : q < p}) = 1
        last == SetMax({i \in 1..Len(line) : ~isSpace(line[i])})
    IN  SubSeq(line, second, last)

----------------------------------------------------------------------------
(* Claims about the parser.                                                *)

C2_FilenameRoundTrips ==
    ppc = "parsed" =>
        \A k \in 1..Len(entries) :
            k <= Cardinality(WellFormedLines(content)) =>
                entries[k].filename =
                    FilenamePart(LineAt(content, WellFormedAt(content, k)))

----------------------------------------------------------------------------
(* The release the Fetcher downloads from, and what temp/ may hold when it *)
(* starts.                                                                 *)

\* most entries a manifest of the pipeline specification lists
MaxEntries == 2

\* the filenames the manifests of the model list
FileNames == {LinuxTarGz, WindowsZip, SolarisTarGz, ChecksumsTxt, LinuxTarGzSig}
NameLists == UNION {[1..n -> FileNames] : n \in 0..MaxEntries}

\* one manifest line: <hash><two spaces><filename><newline>
manifestLine(name) == SampleHash \o <<" ", " ">> \o name \o <<"\n">>
RECURSIVE manifestOf(_)
manifestOf(names) ==
    IF names = <<>> THEN <<>>
    ELSE manifestLine(Head(names)) \o manifestOf(Tail(names))
ManifestTexts == {manifestOf(names) : names \in NameLists}

\* a file of temp/: state is "partial" from the moment a write stream opened
\* it until the stream finished, "complete" after; stale marks a file that an
\* earlier run left
File(state, text, stale) == [state |-> state, text |-> text, stale |-> stale]
put(files, name, file) == [n \in DOMAIN files \cup {name} |->
                              IF n = name THEN file ELSE files[n]]

\* temp/ as an earlier run of the pipeline left it
OldTemp ==
    put(put(NoFiles, ChecksumsTxt, File("complete", manifestOf(<<LinuxTarGz>>), TRUE)),
        LinuxTarGz, File("complete", <<>>, TRUE))

----------------------------------------------------------------------------
(* The Fetcher: main() of the prepare script.                              *)

\* process.argv[2] || 'v0.1.0'
fetchVersion == IF fargv # <<>> THEN fargv ELSE DefaultFetchVersion

\* a plausible slip: the listing after rmSync is not looked at
staleRemainIgnored(exists, files) == FALSE

\* readdirSync(tempDir) after rmSync: it throws when temp/ is gone (cleared);
\* files that are still listed are stale
staleRemain(exists, files) == exists /\ DOMAIN files # {}

FetchExit(code) == fpc' = "ended" /\ fexit' = code

\* rmSync(tempDir, {recursive, force}) and the check of what remains
FetchClear ==
    /\ fpc = "start"
    /\ \E rm \in {"throws", "removed", "returned"} :
         IF rm = "throws"
         THEN /\ fcleared' = "threw"
              /\ FetchExit("1")
              /\ UNCHANGED <<tempExists, tempFiles, packages>>
         ELSE /\ rm = "returned" => tempExists /\ DOMAIN tempFiles # {}
              /\ tempExists' = IF rm = "removed" THEN FALSE ELSE tempExists
              /\ tempFiles' = IF rm = "removed" THEN NoFiles ELSE tempFiles
              /\ packages' = IF rm = "removed" THEN NoFiles ELSE packages
              /\ IF staleRemain(tempExists', tempFiles')
                 THEN fcleared' = "leftover" /\ FetchExit("1")
                 ELSE fcleared' = "yes" /\ fpc' = "cleared" /\ UNCHANGED fexit
    /\ UNCHANGED <<remoteText, fargv, fmanifest, checksumsText, checksums, dl, summary>>
    /\ UNCHANGED <<parseVars, installVars, resolveVars>>

\* mkdir(tempDir), downloadText(`${baseUrl}/checksums.txt`), parseChecksums
FetchManifest ==
    /\ fpc = "cleared"
    /\ \E res \in {"mkdir throws", "request fails", "ok"} :
         /\ tempExists' = IF res = "mkdir throws" THEN tempExists ELSE TRUE
         /\ IF res = "ok"
            THEN /\ checksumsText' = remoteText
                 /\ checksums' = parseChecksums(remoteText)
                 /\ fmanifest' = "ok"
                 /\ fpc' = "fetched"
                 /\ UNCHANGED fexit
            ELSE /\ fmanifest' = IF res = "request fails" THEN "failed" ELSE fmanifest
                 /\ FetchExit("1")
                 /\ UNCHANGED <<checksumsText, checksums>>
    /\ UNCHANGED <<remoteText, tempFiles, packages, fargv, fcleared, dl, summary>>
    /\ UNCHANGED <<parseVars, installVars, resolveVars>>

\* a plausible slip: writeFile is called without await, the downloads start
\* while the manifest is not in temp/ yet
FetchSaveNotAwaited ==
    /\ fpc = "fetched"
    /\ fpc' = "saved"
    /\ UNCHANGED <<stageVars, fargv, fcleared, fmanifest, checksumsText, checksums,
                   dl, fexit, summary>>
    /\ UNCHANGED <<parseVars, installVars, resolveVars>>

\* await writeFile(join(tempDir, 'checksums.txt'), checksumsText)
FetchSave ==
    /\ fpc = "fetched"
    /\ \/ /\ tempFiles' = put(tempFiles, ChecksumsTxt, File("complete", checksumsText, FALSE))
          /\ fpc' = "saved"
          /\ UNCHANGED fexit
       \/ /\ FetchExit("1")
          /\ UNCHANGED tempFiles
    /\ UNCHANGED <<remoteText, tempExists, packages, fargv, fcleared, fmanifest,
                   checksumsText, checksums, dl, summary>>
    /\ UNCHANGED <<parseVars, installVars, resolveVars>>

\* checksums.map(async entry => ...): every callback runs up to its await of
\* downloadFile, whose request is then in flight
StartDownloads ==
    /\ fpc = "saved"
    /\ dl' = [i \in 1..Len(checksums) |-> "requested"]
    /\ fpc' = "downloading"
    /\ UNCHANGED <<stageVars, fargv, fcleared, fmanifest, checksumsText, checksums,
                   fexit, summary>>
    /\ UNCHANGED <<parseVars, installVars, resolveVars>>

DownloadStep(i, status) ==
    /\ dl' = [dl EXCEPT ![i] = status]
    /\ UNCHANGED <<remoteText, tempExists, packages, fargv, fcleared, fmanifest,
                   checksumsText, checksums, summary>>
    /\ UNCHANGED <<parseVars, installVars, resolveVars>>

\* what a finished download leaves in its file
downloaded(name) == File("complete", IF name = ChecksumsTxt THEN remoteText ELSE <<>>, FALSE)

\* downloadFile: the request is rejected (status, timeout, transport), which
\* the entry's catch turns into a failure
DownloadRejected(i) ==
    /\ fpc = "downloading" /\ dl[i] = "requested"
    /\ DownloadStep(i, "failed")
    /\ UNCHANGED <<tempFiles, fpc, fexit>>

\* downloadFile: the response arrives and createWriteStream(destPath) opens
\* (creates or truncates) the file, or fails to open it ('error': rejected)
DownloadResponse(i) ==
    /\ fpc = "downloading" /\ dl[i] = "requested"
    /\ \/ /\ tempFiles' = put(tempFiles, checksums[i].filename, File("partial", <<>>, FALSE))
          /\ DownloadStep(i, "streaming")
       \/ /\ DownloadStep(i, "failed")
          /\ UNCHANGED tempFiles
    /\ UNCHANGED <<fpc, fexit>>

\* downloadFile: 'finish' on the write stream resolves the promise
DownloadFinish(i) ==
    /\ fpc = "downloading" /\ dl[i] = "streaming"
    /\ tempFiles' = put(tempFiles, checksums[i].filename, downloaded(checksums[i].filename))
    /\ DownloadStep(i, "ok")
    /\ UNCHANGED <<fpc, fexit>>

\* downloadFile: 'error' on the write stream rejects the promise; the file
\* stays as far as it was written
DownloadWriteError(i) ==
    /\ fpc = "downloading" /\ dl[i] = "streaming"
    /\ DownloadStep(i, "failed")
    /\ UNCHANGED <<tempFiles, fpc, fexit>>

\* downloadFile: the response stream fails while piping. Nothing listens for
\* 'error' on response.data and pipe() does not end the write stream: either
\* the promise never settles, or the unhandled 'error' ends the process
DownloadSourceError(i) ==
    /\ fpc = "downloading" /\ dl[i] = "streaming"
    /\ \/ /\ DownloadStep(i, "stuck")
          /\ UNCHANGED <<fpc, fexit>>
       \/ /\ DownloadStep(i, "crashed")
          /\ FetchExit("1")
    /\ UNCHANGED tempFiles

count(statuses, wanted) == Cardinality({i \in DOMAIN statuses : statuses[i] \in wanted})

\* Promise.all resolved: the download summary, then main() returns
Summary ==
    /\ fpc = "downloading"
    /\ \A i \in DOMAIN dl : dl[i] \in {"ok", "failed"}
    /\ summary' = [reported |-> TRUE,
                   succeeded |-> count(dl, {"ok"}),
                   failed |-> count(dl, {"failed"})]
    /\ FetchExit("0")
    /\ UNCHANGED <<stageVars, fargv, fcleared, fmanifest, checksumsText, checksums, dl>>
    /\ UNCHANGED <<parseVars, installVars, resolveVars>>

\* Promise.all never resolves because a download never settles: once nothing
\* else is pending the process ends, without a summary
EndWithoutSummary ==
    /\ fpc = "downloading"
    /\ \A i \in DOMAIN dl : dl[i] \in {"ok", "failed", "stuck"}
    /\ \E i \in DOMAIN dl : dl[i] = "stuck"
    /\ FetchExit("0")
    /\ UNCHANGED <<stageVars, fargv, fcleared, fmanifest, checksumsText, checksums,
                   dl, summary>>
    /\ UNCHANGED <<parseVars, installVars, resolveVars>>

FetchNext ==
    \/ FetchClear
    \/ FetchManifest
    \/ FetchSave
    \/ StartDownloads
    \/ \E i \in DOMAIN dl : DownloadRejected(i)
    \/ \E i \in DOMAIN dl : DownloadResponse(i)
    \/ \E i \in DOMAIN dl : DownloadFinish(i)
    \/ \E i \in DOMAIN dl : DownloadWriteError(i)
    \/ \E i \in DOMAIN dl : DownloadSourceError(i)
    \/ Summary
    \/ EndWithoutSummary

FetchArgs == {<<>>, TaggedVersion}

InitStage ==
    /\ remoteText \in ManifestTexts
    /\ \/ tempExists = FALSE /\ tempFiles = NoFiles
       \/ tempExists = TRUE /\ tempFiles \in {NoFiles, OldTemp}
    /\ packages = NoFiles

InitFetch ==
    /\ fargv \in FetchArgs /\ fpc = "start" /\ fcleared = "no" /\ fmanifest = "no"
    /\ checksumsText = <<>> /\ checksums = <<>> /\ dl = <<>>
    /\ fexit = "none" /\ summary = NoSummary

\* the Fetcher on its own (the Installer is never started)
InitFetchAlone == InitStage /\ InitFetch /\ InstallIdle /\ ParseIdle /\ ResolveIdle

SpecFetch == InitFetchAlone /\ [][FetchNext]_vars

----------------------------------------------------------------------------
(* Files of a package output directory temp/packages/hulo-<platform>/.     *)
(* A path is the sequence of its components below the directory.           *)

\* an archive's std/ as readdir lists it: entries in listing order, a
\* directory with the listing of its own entries
FileEntry(name) == [name |-> name, isDir |-> FALSE, kids |-> <<>>]
DirEntry(name, kids) == [name |-> name, isDir |-> TRUE, kids |-> kids]

\* the std/ trees the archives of the model hold
StdTrees ==
    { <<>>,
      <<FileEntry("core.hl")>>,
      <<DirEntry("io", <<FileEntry("file.hl")>>)>>,
      <<FileEntry("core.hl"), DirEntry("io", <<FileEntry("file.hl")>>)>>,
      <<DirEntry("io", <<FileEntry("file.hl")>>), FileEntry("core.hl")>> }

\* what an archive holds: the platform's executable, a std directory
ArchiveContents ==
    {[binary |-> TRUE, hasStd |-> TRUE, std |-> t] : t \in StdTrees}
    \cup {[binary |-> TRUE, hasStd |-> FALSE, std |-> <<>>],
          [binary |-> FALSE, hasStd |-> TRUE, std |-> <<FileEntry("core.hl")>>]}

\* a staged file that is no archive unpacks to nothing
NoArchive == [binary |-> FALSE, hasStd |-> FALSE, std |-> <<>>]

NoArtifacts == [pkg |-> <<>>, launcher |-> <<>>, readme |-> <<>>]
\* a package directory: its files and directories, the files it held when
\* this run started (earlier), those of them this run has not written (stale),
\* the three generated files, and what the archive unpacked into it was seen
\* to hold (<<>>: not unpacked yet): a staged archive unpacks to the same
\* content every time
EmptyDir == [files |-> {}, dirs |-> {}, stale |-> {}, earlier |-> {},
             artifacts |-> NoArtifacts, archive |-> <<>>]

Front(path) == SubSeq(path, 1, Len(path) - 1)
isUnder(path, top) == Len(path) >= Len(top) /\ SubSeq(path, 1, Len(top)) = top

RECURSIVE treeFiles(_, _)
treeFiles(prefix, listing) ==
    IF listing = <<>> THEN {}
    ELSE LET e == Head(listing)
         IN  (IF e.isDir THEN treeFiles(Append(prefix, e.name), e.kids)
                         ELSE {Append(prefix, e.name)})
             \cup treeFiles(prefix, Tail(listing))
RECURSIVE treeDirs(_, _)
treeDirs(prefix, listing) ==
    IF listing = <<>> THEN {}
    ELSE LET e == Head(listing)
         IN  (IF e.isDir
              THEN {Append(prefix, e.name)} \cup treeDirs(Append(prefix, e.name), e.kids)
              ELSE {})
             \cup treeDirs(prefix, Tail(listing))

\* mkdir(path, {recursive: true}): the directory and its missing parents
mkdir(d, path) ==
    [d EXCEPT !.dirs = @ \cup {SubSeq(path, 1, n) : n \in 1..Len(path)}]

\* copyFile(source, target) succeeds when the source is a file and the
\* directory of the target exists
canCopyFile(d, source, target) ==
    source \in d.files /\ (Len(target) = 1 \/ Front(target) \in d.dirs)
\* a plausible slip: a target that is already there is left as it is
copyFileIfAbsent(d, source, target) ==
    IF target \in d.files THEN d ELSE [d EXCEPT !.files = @ \cup {target}]
\* copyFile(source, target) creates the target or overwrites it
copyFile(d, source, target) ==
    [d EXCEPT !.files = @ \cup {target}, !.stale = @ \ {target}]

\* rmSync(path, {recursive, force}): the path and all below it
rmSync(d, path) ==
    [d EXCEPT !.files = {f \in @ : ~isUnder(f, path)},
              !.dirs = {f \in @ : ~isUnder(f, path)},
              !.stale = {f \in @ : ~isUnder(f, path)}]

\* copyDirectory(source, target), with listing what readdir(source) returns:
\* [ok, dir], the directory as the copy left it and whether it completed
RECURSIVE copyDirectory(_, _, _, _)
copyDirectory(d, listing, source, target) ==
    IF source \notin d.dirs THEN [ok |-> FALSE, dir |-> d]
    ELSE IF listing = <<>> THEN [ok |-> TRUE, dir |-> d]
    ELSE LET entry == Head(listing)
             sourcePath == Append(source, entry.name)
             targetPath == Append(target, entry.name)
         IN  IF entry.isDir
             THEN LET sub == copyDirectory(mkdir(d, targetPath), entry.kids,
                                           sourcePath, targetPath)
                  IN  IF sub.ok
                      THEN copyDirectory(sub.dir, Tail(listing), source, target)
                      ELSE sub
             ELSE IF canCopyFile(d, sourcePath, targetPath)
                  THEN copyDirectory(copyFile(d, sourcePath, targetPath),
                                     Tail(listing), source, target)
                  ELSE [ok |-> FALSE, dir |-> d]

----------------------------------------------------------------------------
(* The Installer: main() of scripts/postprepare.ts.                        *)

startsWithAt(s, i, prefix) ==
    i + Len(prefix) - 1 <= Len(s) /\ SubSeq(s, i, i + Len(prefix) - 1) = prefix
startsWith(s, prefix) == startsWithAt(s, 1, prefix)
endsWith(s, suffix) ==
    Len(suffix) <= Len(s) /\ SubSeq(s, Len(s) - Len(suffix) + 1, Len(s)) = suffix

\* entry.filename.match(/hulo_(.+?)\.(tar\.gz|zip)/): <<>> without a match,
\* else <<match[1]>>. The expression is not anchored: the leftmost "hulo_"
\* that an extension follows after at least one character, and the first such
\* extension (the group is lazy)
extensionAt(s, e) == startsWithAt(s, e, DotTarGz) \/ startsWithAt(s, e, DotZip)
matchPlatformKey(filename) ==
    LET n == Len(filename)
        starts == {i \in 1..n : /\ startsWithAt(filename, i, HuloUnderscore)
                                /\ \E e \in (i + 6)..n : extensionAt(filename, e)}
    IN  IF starts = {} THEN <<>>
        ELSE LET i == SetMin(starts)
                 e == SetMin({k \in (i + 6)..n : extensionAt(filename, k)})
             IN  <<SubSeq(filename, i + 5, e - 1)>>

toLowerCase(s) ==
    [i \in 1..Len(s) |->
        IF \E k \in 1..Len(UpperLetters) : UpperLetters[k] = s[i]
        THEN LowerLetters[CHOOSE k \in 1..Len(UpperLetters) : UpperLetters[k] = s[i]]
        ELSE s[i]]
\* replace(/_/g, '-')
replaceUnderscores(s) == [i \in 1..Len(s) |-> IF s[i] = "_" THEN "-" ELSE s[i]]
\* platformKey.toLowerCase().replace(/_/g, '-')
normalizeKey(platformKey) == replaceUnderscores(toLowerCase(platformKey))

Platform(os, arch, description) == [os |-> os, arch |-> arch, description |-> description]
platformInfo ==
    [k \in {DarwinArm64, DarwinX8664, LinuxArm64, LinuxI386, LinuxX8664,
            WindowsArm64, WindowsI386, WindowsX8664} |->
        CASE k = DarwinArm64 -> Platform(Darwin, Arm64, "Hulo compiler for macOS (Apple Silicon)")
          [] k = DarwinX8664 -> Platform(Darwin, X64, "Hulo compiler for macOS (Intel)")
          [] k = LinuxArm64 -> Platform(Linux, Arm64, "Hulo compiler for Linux (ARM64)")
          [] k = LinuxI386 -> Platform(Linux, Ia32, "Hulo compiler for Linux (32-bit)")
          [] k = LinuxX8664 -> Platform(Linux, X64, "Hulo compiler for Linux (64-bit)")
          [] k = WindowsArm64 -> Platform(Win32, Arm64, "Hulo compiler for Windows (ARM64)")
          [] k = WindowsI386 -> Platform(Win32, Ia32, "Hulo compiler for Windows (32-bit)")
          [] k = WindowsX8664 -> Platform(Win32, X64, "Hulo compiler for Windows (64-bit)")]

\* platformName.startsWith('windows') ? 'hulo.exe' : 'hulo'
binaryName(platformName) == IF startsWith(platformName, Windows) THEN "hulo.exe" ELSE "hulo"

\* process.argv[2] || '0.1.0'
installVersion == IF iargv # <<>> THEN iargv ELSE DefaultInstallVersion

\* the fields of the rendered package.json
packageJsonTemplate(data) ==
    [name |-> HuloScope \o data.platformName,
     version |-> data.version,
     description |-> data.description,
     bin |-> <<"bin", data.binaryName>>,
     os |-> <<data.os>>,
     cpu |-> <<data.arch>>]
\* the fields of the rendered index.js and README.md
indexJsTemplate(data) == [exePath |-> <<"bin", data.binaryName>>]
readmeTemplate(data) ==
    [title |-> HuloScope \o data.platformName, description |-> data.description,
     os |-> data.os, arch |-> data.arch]

\* what the loop body decides about an entry before it touches the output:
\* "format", "platform" or "missing" for the three ways it skips, else "process"
entryKind(entry) ==
    LET match == matchPlatformKey(entry.filename)
    IN  IF match = <<>> THEN "format"
        ELSE IF normalizeKey(match[1]) \notin DOMAIN platformInfo THEN "platform"
        ELSE IF entry.filename \notin DOMAIN tempFiles THEN "missing"
        ELSE "process"
platformNameOf(entry) == normalizeKey(matchPlatformKey(entry.filename)[1])
platformDirOf(entry) == HuloDash \o platformNameOf(entry)
dirOf(name) == IF name \in DOMAIN packages THEN packages[name] ELSE EmptyDir

InstallExit(code) == ipc' = "ended" /\ iexit' = code
InstallFrame ==
    UNCHANGED <<remoteText, tempExists, tempFiles, iruns, parseVars, fetchVars, resolveVars>>

InstallArgs == {<<>>, TaggedVersion, BareVersion}

\* main() up to the loop: readdir(tempDir), readFile(checksumsPath),
\* parseChecksums
InstallStart ==
    /\ ipc = "ready" /\ fpc = "ended"
    /\ \E arg \in InstallArgs : iargv' = arg
    /\ IF tempExists /\ ChecksumsTxt \in DOMAIN tempFiles
       THEN /\ ichecksums' = parseChecksums(tempFiles[ChecksumsTxt].text)
            /\ idx' = 1
            /\ ipc' = "loop"
            /\ UNCHANGED iexit
       ELSE /\ InstallExit("1")
            /\ UNCHANGED <<ichecksums, idx>>
    /\ UNCHANGED <<packages, outcomes, extracted>>
    /\ InstallFrame

\* the loop body for an entry it skips (continue)
SkipEntry ==
    /\ ipc = "loop" /\ idx <= Len(ichecksums)
    /\ entryKind(ichecksums[idx]) # "process"
    /\ outcomes' = Append(outcomes, entryKind(ichecksums[idx]))
    /\ idx' = idx + 1
    /\ UNCHANGED <<iargv, ipc, ichecksums, extracted, iexit, packages>>
    /\ InstallFrame

\* extractFile(filePath, extractDir) into directory d for an archive holding
\* holds: a file that is neither .zip nor .tar.gz is copied as it is
extractFile(d, filename, exe, holds) ==
    IF ~endsWith(filename, DotZip) /\ ~endsWith(filename, DotTarGz)
    THEN [d EXCEPT !.files = @ \cup {<<"(the staged file)">>},
                   !.stale = @ \ {<<"(the staged file)">>}]
    ELSE LET files == (IF holds.binary THEN {<<exe>>} ELSE {})
                      \cup (IF holds.hasStd THEN treeFiles(<<"std">>, holds.std) ELSE {})
             dirs == IF holds.hasStd
                     THEN {<<"std">>} \cup treeDirs(<<"std">>, holds.std) ELSE {}
         IN  [d EXCEPT !.files = @ \cup files, !.dirs = @ \cup dirs,
                       !.stale = @ \ (files \cup dirs)]

\* the loop body from mkdir(platformDir) to the end of extractFile
ExtractEntry ==
    /\ ipc = "loop" /\ idx <= Len(ichecksums)
    /\ entryKind(ichecksums[idx]) = "process"
    /\ LET entry == ichecksums[idx]
           name == platformDirOf(entry)
           isArchive == endsWith(entry.filename, DotZip) \/ endsWith(entry.filename, DotTarGz)
       IN  \/ \* the tool exits 0 (or the plain copy succeeds)
              /\ isArchive => tempFiles[entry.filename].state = "complete"
              /\ \E holds \in (IF ~isArchive THEN {NoArchive}
                               ELSE IF dirOf(name).archive = <<>> THEN ArchiveContents
                               ELSE {dirOf(name).archive[1]}) :
                   /\ packages' = put(packages, name,
                          [extractFile(dirOf(name), entry.filename,
                                       binaryName(platformNameOf(entry)), holds)
                              EXCEPT !.archive = IF isArchive THEN <<holds>> ELSE @])
                   /\ extracted' = [index |-> idx, binary |-> holds.binary,
                                     hasStd |-> holds.hasStd, std |-> holds.std]
              /\ ipc' = "extracted"
              /\ UNCHANGED <<outcomes, iexit>>
           \/ \* the tool exits non-zero or cannot be spawned: main's catch
              /\ isArchive
              /\ packages' = put(packages, name, dirOf(name))
              /\ outcomes' = Append(outcomes, "failed")
              /\ InstallExit("1")
              /\ UNCHANGED extracted
    /\ UNCHANGED <<iargv, ichecksums, idx>>
    /\ InstallFrame

\* the relocation: mkdir(binDir), copyFile of the executable, copyDirectory
\* of std, rmSync of the two originals: [ok, dir]
relocate(d, exe, listing) ==
    LET made == mkdir(d, <<"bin">>)
    IN  IF ~canCopyFile(made, <<exe>>, <<"bin", exe>>)
        THEN [ok |-> FALSE, dir |-> made]
        ELSE LET copied == copyDirectory(copyFile(made, <<exe>>, <<"bin", exe>>),
                                         listing, <<"std">>, <<"bin", "std">>)
             IN  IF ~copied.ok THEN copied
                 ELSE [ok |-> TRUE, dir |-> rmSync(rmSync(copied.dir, <<exe>>), <<"std">>)]

RelocateEntry ==
    /\ ipc = "extracted"
    /\ LET entry == ichecksums[idx]
           name == platformDirOf(entry)
           done == relocate(packages[name], binaryName(platformNameOf(entry)), extracted.std)
       IN  /\ packages' = put(packages, name, done.dir)
           /\ IF done.ok
              THEN ipc' = "relocated" /\ UNCHANGED <<outcomes, iexit>>
              ELSE outcomes' = Append(outcomes, "failed") /\ InstallExit("1")
    /\ UNCHANGED <<iargv, ichecksums, idx, extracted>>
    /\ InstallFrame

\* packageJsonData of a platform
packageJsonData(platformName, version) ==
    LET platformData == platformInfo[platformName]
    IN  [platformName |-> platformName,
         version |-> version,
         description |-> platformData.description,
         binaryName |-> binaryName(platformName),
         os |-> platformData.os,
         arch |-> platformData.arch]

\* the three generated files of an entry
artifactsOf(entry, version) ==
    LET platformName == platformNameOf(entry)
        platformData == platformInfo[platformName]
    IN  [pkg |-> <<packageJsonTemplate(packageJsonData(platformName, version))>>,
         launcher |-> <<indexJsTemplate([binaryName |-> binaryName(platformName)])>>,
         readme |-> <<readmeTemplate([platformName |-> platformName,
                                      description |-> platformData.description,
                                      os |-> platformData.os,
                                      arch |-> platformData.arch])>>]

\* the three writeFile calls and the end of the loop body
GenerateEntry ==
    /\ ipc = "relocated"
    /\ LET entry == ichecksums[idx]
           name == platformDirOf(entry)
       IN  \/ /\ packages' = put(packages, name,
                     [packages[name] EXCEPT !.artifacts = artifactsOf(entry, installVersion)])
              /\ outcomes' = Append(outcomes, "created")
              /\ idx' = idx + 1
              /\ ipc' = "loop"
              /\ UNCHANGED iexit
           \/ \* writeFile throws: main's catch
              /\ outcomes' = Append(outcomes, "failed")
              /\ InstallExit("1")
              /\ UNCHANGED <<packages, idx>>
    /\ UNCHANGED <<iargv, ichecksums, extracted>>
    /\ InstallFrame

\* the loop is over: main() returns
InstallFinish ==
    /\ ipc = "loop" /\ idx > Len(ichecksums)
    /\ InstallExit("0")
    /\ UNCHANGED <<iargv, ichecksums, idx, outcomes, extracted, packages>>
    /\ InstallFrame

\* most runs of the Installer on one temp/
MaxRuns == 2

\* the Installer is started again on the temp/ its earlier run left: main()
\* removes nothing, every file of temp/packages/ is now a file of an earlier
\* run
InstallAgain ==
    /\ ipc = "ended" /\ iruns < MaxRuns
    /\ iruns' = iruns + 1
    /\ ipc' = "ready" /\ iexit' = "none"
    /\ iargv' = <<>> /\ ichecksums' = <<>> /\ idx' = 0
    /\ outcomes' = <<>> /\ extracted' = NoExtraction
    /\ packages' = [n \in DOMAIN packages |->
                       [packages[n] EXCEPT !.stale = packages[n].files,
                                           !.earlier = packages[n].files]]
    /\ UNCHANGED <<remoteText, tempExists, tempFiles, parseVars, fetchVars, resolveVars>>

InstallNext ==
    \/ InstallStart
    \/ SkipEntry
    \/ ExtractEntry
    \/ RelocateEntry
    \/ GenerateEntry
    \/ InstallFinish
    \/ InstallAgain

InitInstall ==
    /\ iargv = <<>> /\ ipc = "ready" /\ ichecksums = <<>> /\ idx = 0
    /\ outcomes = <<>> /\ extracted = NoExtraction /\ iexit = "none" /\ iruns = 1

\* the pipeline: the Fetcher, then the Installer on the temp/ it left
Init == InitStage /\ InitFetch /\ InitInstall /\ ParseIdle /\ ResolveIdle
Next == FetchNext \/ InstallNext
Spec == Init /\ [][Next]_vars

----------------------------------------------------------------------------
(* The platform installer: the script that installs the host's package.    *)

platformMap ==
    [k \in {Win32, Darwin, Linux} |->
        CASE k = Win32 -> Windows [] k = Darwin -> Darwin [] k = Linux -> Linux]

\* a plausible slip: the release's spelling of the architecture
archMapUnderscore ==
    [k \in {X64, Arm64, Ia32} |->
        CASE k = X64 -> X8664Underscore [] k = Arm64 -> Arm64 [] k = Ia32 -> I386]

archMap ==
    [k \in {X64, Arm64, Ia32} |->
        CASE k = X64 -> X8664 [] k = Arm64 -> Arm64 [] k = Ia32 -> I386]

\* map[key] || key
lookupOr(map, key) == IF key \in DOMAIN map THEN map[key] ELSE key

getPlatform(os, arch) == lookupOr(platformMap, os) \o <<"-">> \o lookupOr(archMap, arch)

\* the values of the OS and CPU types of postprepare.ts
HostOses == {Win32, Darwin, Linux, FreeBsd, OpenBsd, SunOs, Aix}
HostArchs == {X64, Ia32, Arm64, Arm, Mips, Ppc, Ppc64}

ResolveFrame == UNCHANGED <<parseVars, stageVars, fetchVars, installVars>>

\* main() up to exec(`npm install -g ${packageName}`)
ResolveStart ==
    /\ rpc = "start"
    /\ packageName' = HuloScope \o getPlatform(hostOs, hostArch)
    /\ rpc' = "installing"
    /\ UNCHANGED <<hostOs, hostArch, rexit>>
    /\ ResolveFrame

\* the exec callback without an error
InstallSucceeded ==
    /\ rpc = "installing"
    /\ rpc' = "ended" /\ rexit' = "0"
    /\ UNCHANGED <<hostOs, hostArch, packageName>>
    /\ ResolveFrame

\* the exec callback with an error: process.exit(1)
InstallFailed ==
    /\ rpc = "installing"
    /\ rpc' = "ended" /\ rexit' = "1"
    /\ UNCHANGED <<hostOs, hostArch, packageName>>
    /\ ResolveFrame

InitResolve ==
    /\ hostOs \in HostOses /\ hostArch \in HostArchs /\ rpc = "start"
    /\ packageName = <<>> /\ rexit = "none"
    /\ ParseIdle /\ StageIdle /\ FetchIdle /\ InstallIdle

NextResolve == ResolveStart \/ InstallSucceeded \/ InstallFailed

SpecResolve == InitResolve /\ [][NextResolve]_vars

----------------------------------------------------------------------------
(* Claims about the Fetcher.                                               *)

okFiles == {checksums[i].filename : i \in {j \in DOMAIN dl : dl[j] = "ok"}}

\* C3: after a Fetcher run that exits 0, temp/ holds checksums.txt with the
\* fetched text, one file per manifest entry whose download succeeded, and
\* nothing else: an entry whose download failed has no file there. (Stated
\* for the manifests that do not list checksums.txt itself.)
C3_StagingHoldsExactlyTheDownloads ==
    (/\ fpc = "ended" /\ fexit = "0"
     /\ \A i \in DOMAIN checksums : checksums[i].filename # ChecksumsTxt) =>
        /\ DOMAIN tempFiles = {ChecksumsTxt} \cup okFiles
        /\ tempFiles[ChecksumsTxt].text = checksumsText

\* C4: once the downloads have been started the run ends only with exit code
\* 0 and with a summary in which every entry that did not succeed is counted
\* as failed, whatever subset of the downloads fails.
C4_DownloadFailuresAreIsolated ==
    (fpc = "ended" /\ fpc # "start" /\ Len(dl) > 0) =>
        /\ fexit = "0"
        /\ summary.reported
        /\ summary.succeeded = count(dl, {"ok"})
        /\ summary.failed = Len(dl) - count(dl, {"ok"})

\* C5: if temp/ could not be cleared (rmSync threw, or files were still listed
\* after it) or the manifest could not be fetched, the process has exited with
\* a non-zero code and no download was started; and whenever a download has
\* been started, temp/ had been cleared and holds no file of an earlier run.
C5_StructuralFailureIsFatal ==
    /\ (fcleared \in {"threw", "leftover"} \/ fmanifest = "failed") =>
           (fpc = "ended" /\ fexit = "1" /\ dl = <<>>)
    /\ Len(dl) > 0 =>
           (fcleared = "yes" /\ \A n \in DOMAIN tempFiles : ~tempFiles[n].stale)

\* C5 witness: files of an earlier run were still listed after rmSync, and the
\* run ended with exit code 1 without starting a download.
C5_Witness ==
    /\ fpc = "ended" /\ fcleared = "leftover" /\ fexit = "1"
    /\ \E n \in DOMAIN tempFiles : tempFiles[n].stale
    /\ dl = <<>>

----------------------------------------------------------------------------
(* Claims about the Installer.                                             *)

\* <prefix>_<PlatformKey>.<ext> with prefix hulo and ext tar.gz or zip: the
\* extension the name ends with, <<>> when the name has another form
patternExtension(filename) ==
    IF ~startsWith(filename, HuloUnderscore) THEN <<>>
    ELSE IF endsWith(filename, DotTarGz) /\ Len(filename) > Len(HuloUnderscore) + Len(DotTarGz)
    THEN DotTarGz
    ELSE IF endsWith(filename, DotZip) /\ Len(filename) > Len(HuloUnderscore) + Len(DotZip)
    THEN DotZip
    ELSE <<>>
fitsPattern(filename) == patternExtension(filename) # <<>>
patternKey(filename) ==
    SubSeq(filename, Len(HuloUnderscore) + 1, Len(filename) - Len(patternExtension(filename)))
\* the platform table key an archive name stands for
patternPlatform(filename) == normalizeKey(patternKey(filename))
recognized(filename) ==
    fitsPattern(filename) /\ patternPlatform(filename) \in DOMAIN platformInfo
\* the entries the Installer is to skip
toSkip(entry) == ~recognized(entry.filename) \/ entry.filename \notin DOMAIN tempFiles
Skips == {"format", "platform", "missing"}

\* C6: an entry whose filename does not have the form
\* <prefix>_<PlatformKey>.<ext>, whose platform is not in the table or whose
\* staged file is missing is skipped: nothing is extracted or written for it,
\* the loop goes on to the next entry, and the run does not end with exit
\* code 1 at it.
C6_UnusableEntriesAreSkipped ==
    \A i \in 1..Len(ichecksums) :
        toSkip(ichecksums[i]) =>
            /\ i <= Len(outcomes) => outcomes[i] \in Skips
            /\ (i = idx /\ i > Len(outcomes)) => ipc = "loop"

\* C7: when the run is over, the output directory of an entry that names a
\* recognized platform and whose staged archive held the executable and a std
\* directory contains bin/<executable> and bin/std, and neither the
\* executable nor std at its top level.
C7_BinaryAndStdEndUnderBin ==
    (/\ ipc = "ended"
     /\ extracted.index > 0 /\ extracted.binary /\ extracted.hasStd
     /\ recognized(ichecksums[extracted.index].filename)) =>
        LET entry == ichecksums[extracted.index]
            exe == binaryName(patternPlatform(entry.filename))
            d == dirOf(HuloDash \o patternPlatform(entry.filename))
        IN  /\ <<"bin", exe>> \in d.files
            /\ <<"bin", "std">> \in d.dirs
            /\ <<exe>> \notin d.files
            /\ <<"std">> \notin d.dirs

\* C8: when the Fetcher was run with vX.Y.Z and the Installer with the same
\* version string, every package descriptor written for a recognized archive
\* hulo_<Key>.<ext> names @hulo/<key in lower case with hyphens> and has
\* version X.Y.Z.
C8_DescriptorNameAndVersion ==
    (fargv = TaggedVersion /\ fexit = "0" /\ iargv = fargv) =>
        \A i \in 1..Len(outcomes) :
            (outcomes[i] = "created" /\ recognized(ichecksums[i].filename)) =>
                LET platform == patternPlatform(ichecksums[i].filename)
                    written == dirOf(HuloDash \o platform).artifacts.pkg
                IN  /\ written # <<>>
                    /\ written[1].name = HuloScope \o platform
                    /\ written[1].version = Tail(fargv)

\* C10: the Installer reaches every manifest entry: when the run is over each
\* entry of the manifest it read has been skipped or processed, whatever
\* happened to the entries before it.
C10_EveryEntryIsReached ==
    ipc = "ended" => Len(outcomes) = Len(ichecksums)

----------------------------------------------------------------------------
(* Claims about the platform installer.                                    *)

\* C9: for every key k of the Installer's platform table, a host whose
\* operating system and CPU identifiers are the os and arch of k's entry
\* resolves to k, the install command names @hulo/k, and the descriptor
\* generated for k declares that os and arch under that name.
C9_HostResolvesToItsPackage ==
    rpc # "start" =>
        \A k \in DOMAIN platformInfo :
            (platformInfo[k].os = hostOs /\ platformInfo[k].arch = hostArch) =>
                LET descriptor == packageJsonTemplate(packageJsonData(k, BareVersion))
                IN  /\ getPlatform(hostOs, hostArch) = k
                    /\ packageName = HuloScope \o k
                    /\ descriptor.name = packageName
                    /\ descriptor.os = <<hostOs>>
                    /\ descriptor.cpu = <<hostArch>>

\* C9 witness: on a 32-bit Windows host the install command names
\* @hulo/windows-i386, a key of the platform table.
C9_Witness ==
    /\ rpc = "installing"
    /\ hostOs = Win32 /\ hostArch = Ia32
    /\ packageName = HuloScope \o WindowsI386
    /\ WindowsI386 \in DOMAIN platformInfo

----------------------------------------------------------------------------
(* Termination of the Fetcher.                                             *)

\* what happens between the start of the downloads and the end of main():
\* the events of the requests and of the streams, and the continuation after
\* Promise.all
DownloadEvents ==
    \/ \E i \in DOMAIN dl : DownloadRejected(i)
    \/ \E i \in DOMAIN dl : DownloadResponse(i)
    \/ \E i \in DOMAIN dl : DownloadFinish(i)
    \/ \E i \in DOMAIN dl : DownloadWriteError(i)
    \/ \E i \in DOMAIN dl : DownloadSourceError(i)
    \/ Summary
    \/ EndWithoutSummary

\* the event loop delivers every pending network or stream event and runs
\* every continuation that is ready: while one of these steps stays possible
\* one of them is eventually taken
SpecFetchFair == InitFetchAlone /\ [][FetchNext]_vars /\ WF_vars(DownloadEvents)

\* C11: once the downloads have been started every one of them settles as
\* success or failure, so the Fetcher reaches the summary, whose succeeded
\* and failed counts add up to the number of manifest entries.
C11_EveryDownloadSettles ==
    (fpc = "downloading") ~>
        (/\ summary.reported
         /\ \A i \in DOMAIN dl : dl[i] \in {"ok", "failed"}
         /\ summary.succeeded + summary.failed = Len(checksums))

----------------------------------------------------------------------------
(* copyDirectory on its own: the copy of std into bin/std.                 *)

\* most entries a directory of the generated std trees lists
MaxWidth == 2

StdFileNames == {"core.hl", "math.hl"}
StdDirNames == {"io", "net"}

\* readdir never lists a name twice
distinctNames(listing) ==
    \A i, j \in DOMAIN listing : i # j => listing[i].name # listing[j].name

\* listings of a subdirectory: files only, in any order
LeafListings ==
    {l \in UNION {[1..n -> {FileEntry(f) : f \in StdFileNames}] : n \in 0..MaxWidth} :
        distinctNames(l)}
StdEntries ==
    {FileEntry(f) : f \in StdFileNames}
    \cup {DirEntry(n, kids) : n \in StdDirNames, kids \in LeafListings}
\* listings of std: empty, files at the top level, subdirectories (empty or
\* not), in every listing order
StdListings ==
    {l \in UNION {[1..n -> StdEntries] : n \in 0..MaxWidth} : distinctNames(l)}

CopyDir == HuloDash \o LinuxX8664

\* a package directory after extraction and mkdir(binDir), holding std as
\* listed; bin/std is there or not
stdDir(listing, targetExists) ==
    [files |-> treeFiles(<<"std">>, listing),
     dirs |-> {<<"std">>, <<"bin">>} \cup treeDirs(<<"std">>, listing)
              \cup (IF targetExists THEN {<<"bin", "std">>} ELSE {}),
     stale |-> {},
     earlier |-> {},
     artifacts |-> NoArtifacts,
     archive |-> <<>>]

InitCopy ==
    /\ ParseIdle /\ FetchIdle /\ ResolveIdle
    /\ remoteText = <<>> /\ tempExists = TRUE /\ tempFiles = NoFiles
    /\ iargv = <<>> /\ ipc = "copy" /\ ichecksums = <<>> /\ idx = 0
    /\ outcomes = <<>> /\ iexit = "none" /\ iruns = 1
    /\ \E listing \in StdListings, targetExists \in BOOLEAN :
         /\ extracted = [index |-> 0, binary |-> FALSE, hasStd |-> TRUE, std |-> listing]
         /\ packages = put(NoFiles, CopyDir, stdDir(listing, targetExists))

\* await copyDirectory(stdSource, stdTarget)
CopyDirectory ==
    /\ ipc = "copy"
    /\ LET done == copyDirectory(packages[CopyDir], extracted.std,
                                 <<"std">>, <<"bin", "std">>)
       IN  /\ packages' = put(packages, CopyDir, done.dir)
           /\ ipc' = IF done.ok THEN "copied" ELSE "threw"
    /\ UNCHANGED <<iargv, ichecksums, idx, outcomes, extracted, iexit>>
    /\ InstallFrame

NextCopy == CopyDirectory

SpecCopy == InitCopy /\ [][NextCopy]_vars

\* C12: for every std tree and whether or not bin/std exists,
\* copyDirectory(std, bin/std) completes without error and leaves bin/std
\* existing, with every file and every subdirectory of std at the same
\* relative path below it.
C12_CopyDirectoryCopiesTheTree ==
    ipc \in {"copied", "threw"} =>
        LET d == packages[CopyDir]
        IN  /\ ipc = "copied"
            /\ <<"bin", "std">> \in d.dirs
            /\ \A f \in treeFiles(<<"std">>, extracted.std) : <<"bin">> \o f \in d.files
            /\ \A f \in treeDirs(<<"std">>, extracted.std) : <<"bin">> \o f \in d.dirs

----------------------------------------------------------------------------
(* Runs of the Installer after the first.                                  *)

\* C13: after an Installer run that exits 0, no file that an earlier run on
\* the same temp/ left survives in a directory this run reports as created:
\* every file in it was written in this run.
C13_CreatedDirectoriesAreFresh ==
    (ipc = "ended" /\ iexit = "0") =>
        \A i \in DOMAIN outcomes :
            outcomes[i] = "created" =>
                packages[platformDirOf(ichecksums[i])].stale = {}

\* C13 witness: a second run exits 0 and reports a directory as created that
\* held files of the first run when the second started, none of which is
\* left unwritten.
C13_Witness ==
    /\ iruns = 2 /\ ipc = "ended" /\ iexit = "0"
    /\ \E i \in DOMAIN outcomes :
         /\ outcomes[i] = "created"
         /\ packages[platformDirOf(ichecksums[i])].earlier # {}
         /\ packages[platformDirOf(ichecksums[i])].stale = {}

----------------------------------------------------------------------------
(* The order of the steps.                                                 *)

\* the files of directory n that a step wrote: created, or written over
writtenIn(n) ==
    (packages'[n].files \ dirOf(n).files) \cup (dirOf(n).stale \ packages'[n].stale)

\* a step of a running Installer changed temp/packages/
installerWrote == packages' # packages /\ fpc = "ended" /\ ipc # "ended"

\* C14: in the Installer every step works on the entry the loop is at, all
\* entries before it having had their last step; nothing is written under
\* bin/ before the extraction of that entry has completed, and no artifact is
\* written before its relocation has completed (the copies are under bin/, the
\* top-level originals are deleted). In the Fetcher no download starts, and no
\* download creates a file, before the manifest has been fetched and written
\* to temp/.
C14_StepsAreOrdered ==
    [][/\ installerWrote =>
             /\ idx \in DOMAIN ichecksums
             /\ Len(outcomes) = idx - 1
             /\ entryKind(ichecksums[idx]) = "process"
             /\ LET entry == ichecksums[idx]
                    cur == platformDirOf(entry)
                    exe == binaryName(platformNameOf(entry))
                IN  /\ \A n \in DOMAIN packages' \ {cur} :
                          n \in DOMAIN packages /\ packages'[n] = packages[n]
                    /\ (\E f \in writtenIn(cur) : f[1] = "bin") =>
                          /\ extracted.index = idx
                          /\ extracted' = extracted
                    /\ packages'[cur].artifacts # dirOf(cur).artifacts =>
                          /\ extracted.index = idx
                          /\ writtenIn(cur) = {}
                          /\ <<"bin", exe>> \in dirOf(cur).files
                          /\ <<exe>> \notin dirOf(cur).files
                          /\ <<"std">> \notin dirOf(cur).dirs
                          /\ \A f \in treeFiles(<<"std">>, extracted.std) :
                                <<"bin">> \o f \in dirOf(cur).files
       /\ (outcomes' # outcomes /\ ipc # "ended") =>
             /\ Len(outcomes) = idx - 1
             /\ Len(outcomes') = idx
             /\ SubSeq(outcomes', 1, idx - 1) = outcomes
       /\ (idx' # idx /\ ipc = "loop") =>
             /\ idx' = idx + 1
             /\ Len(outcomes') = idx
       /\ (dl = <<>> /\ dl' # <<>>) =>
             /\ fmanifest = "ok"
             /\ ChecksumsTxt \in DOMAIN tempFiles
             /\ tempFiles[ChecksumsTxt].text = checksumsText
             /\ ~tempFiles[ChecksumsTxt].stale
       /\ (\E name \in DOMAIN tempFiles' \ DOMAIN tempFiles : name # ChecksumsTxt) =>
             /\ fmanifest = "ok"
             /\ Len(dl) > 0
             /\ ChecksumsTxt \in DOMAIN tempFiles
      ]_vars

\* C14 witness: the relocation of the second entry is complete while the
\* first entry has had its last step, after a Fetcher run whose two downloads
\* were started with the manifest in temp/.
C14_Witness ==
    /\ ipc = "relocated" /\ idx = 2 /\ outcomes = <<"created">>
    /\ extracted.index = 2
    /\ Len(dl) = 2 /\ fmanifest = "ok"
    /\ packages[platformDirOf(ichecksums[1])].artifacts # NoArtifacts
    /\ packages[platformDirOf(ichecksums[2])].artifacts = NoArtifacts

----------------------------------------------------------------------------
(* The concurrent downloads and the paths they write.                      *)

\* the downloads whose write stream is open on temp/<name>
writersOf(name) ==
    {i \in DOMAIN dl : dl[i] \in {"streaming", "stuck"} /\ checksums[i].filename = name}

\* C15: while the downloads run, at most one of them has a write stream open
\* on any path of temp/, none of them opens, writes or has written
\* temp/checksums.txt, and from the moment it is written temp/checksums.txt
\* holds the manifest text the Fetcher parsed; for every manifest.
C15_OneWriterPerStagingPath ==
    /\ \A i \in DOMAIN dl : Cardinality(writersOf(checksums[i].filename)) <= 1
    /\ \A i \in DOMAIN dl :
          checksums[i].filename = ChecksumsTxt => dl[i] \in {"requested", "failed"}
    /\ fpc \in {"saved", "downloading"} \/ (fpc = "ended" /\ Len(dl) > 0) =>
          /\ ChecksumsTxt \in DOMAIN tempFiles
          /\ tempFiles[ChecksumsTxt].text = checksumsText

====
